---- MODULE Spec2Model ----
(***************************************************************************)
(* Model of extract_data_to_excel (src/engg_pdf_extraction.py): the        *)
(* line-scanning record reassembler that turns cleaned OCR page text into  *)
(* flat cut-off records.                                                   *)
(*                                                                         *)
(* Text is modelled at character level: a Python str is a sequence of      *)
(* one-character strings, so that the regular expressions of the source    *)
(* are matchers that can succeed or fail on a concrete line.  Python None  *)
(* is the value None for scalars; for the list variables (seat_types,      *)
(* ranks, ...) None is the empty sequence, which has the same truth value  *)
(* and the code never builds an empty list for them.                       *)
(***************************************************************************)
EXTENDS Integers, Sequences, FiniteSets, TLC

----------------------------------------------------------------------------
(* Characters and elementary string operations                             *)

Digits == {"0","1","2","3","4","5","6","7","8","9"}

Whitespace == {" ", "\t"}

LowerLetters ==
    <<"a","b","c","d","e","f","g","h","i","j","k","l","m",
      "n","o","p","q","r","s","t","u","v","w","x","y","z">>

UpperLetters ==
    <<"A","B","C","D","E","F","G","H","I","J","K","L","M",
      "N","O","P","Q","R","S","T","U","V","W","X","Y","Z">>

None == <<"None">>

Truthy(x) == x # None /\ x # <<>>

Min(a, b) == IF a <= b THEN a ELSE b

\* s[from:] in Python terms, 1-based
Rest(s, from) == SubSeq(s, from, Len(s))

UpperChar(c) ==
    IF \E k \in 1..26 : LowerLetters[k] = c
    THEN UpperLetters[CHOOSE k \in 1..26 : LowerLetters[k] = c]
    ELSE c

\* str.upper()
Upper(s) == [k \in 1..Len(s) |-> UpperChar(s[k])]

\* str.lstrip(chars) / str.rstrip(chars) / str.strip(chars)
LStripSet(s, cs) ==
    IF \A k \in 1..Len(s) : s[k] \in cs THEN <<>>
    ELSE Rest(s, CHOOSE k \in 1..Len(s) :
                   s[k] \notin cs /\ \A m \in 1..(k-1) : s[m] \in cs)

RStripSet(s, cs) ==
    IF \A k \in 1..Len(s) : s[k] \in cs THEN <<>>
    ELSE SubSeq(s, 1, CHOOSE k \in 1..Len(s) :
                        s[k] \notin cs /\ \A m \in (k+1)..Len(s) : s[m] \in cs)

StripSet(s, cs) == RStripSet(LStripSet(s, cs), cs)

\* str.strip()
Strip(s) == StripSet(s, Whitespace)

\* pat occurs in s at position p
MatchAt(s, p, pat) ==
    /\ p >= 1
    /\ p + Len(pat) - 1 <= Len(s)
    /\ SubSeq(s, p, p + Len(pat) - 1) = pat

\* least position of pat in s, 0 when absent (str.find, 1-based)
Find(s, pat) ==
    IF \E p \in 1..Len(s) : MatchAt(s, p, pat)
    THEN CHOOSE p \in 1..Len(s) :
           MatchAt(s, p, pat) /\ \A q \in 1..(p-1) : ~MatchAt(s, q, pat)
    ELSE 0

\* str.split(): the maximal runs of non-whitespace characters
RECURSIVE Split(_)
Split(s) ==
    LET t == LStripSet(s, Whitespace) IN
    IF t = <<>> THEN <<>>
    ELSE LET n == IF \E k \in 1..Len(t) : t[k] \in Whitespace
                  THEN (CHOOSE k \in 1..Len(t) :
                          t[k] \in Whitespace
                          /\ \A m \in 1..(k-1) : t[m] \notin Whitespace) - 1
                  ELSE Len(t)
         IN <<SubSeq(t, 1, n)>> \o Split(Rest(t, n + 1))

\* str.split(sep) for a non-empty separator
RECURSIVE SplitOn(_, _)
SplitOn(s, sep) ==
    LET p == Find(s, sep) IN
    IF p = 0 THEN <<s>>
    ELSE <<SubSeq(s, 1, p - 1)>> \o SplitOn(Rest(s, p + Len(sep)), sep)

\* ''.join(re.findall(r'\d+', s)): all the digits of s
FirstNumberAllDigits(s) ==
    SelectSeq(s, LAMBDA c : c \in Digits)

\* re.findall(r'\d+', s)[0]: the first maximal run of digits, <<>> if none
FirstNumber(s) ==
    IF \A k \in 1..Len(s) : s[k] \notin Digits THEN <<>>
    ELSE LET b == CHOOSE k \in 1..Len(s) :
                    s[k] \in Digits /\ \A m \in 1..(k-1) : s[m] \notin Digits
             e == CHOOSE k \in b..Len(s) :
                    /\ \A m \in b..k : s[m] \in Digits
                    /\ (k = Len(s) \/ s[k+1] \notin Digits)
         IN SubSeq(s, b, e)

----------------------------------------------------------------------------
(* The line grammar: the regular expressions of extract_data_to_excel      *)

\* " - "
DashSep == <<" ","-"," ">>

\* position of the leftmost match of (\d{w}) - (.+?)$ in a line, 0 if none
CodeDashPos(line, w) ==
    LET ok(p) == /\ \A k \in p..(p + w - 1) : line[k] \in Digits
                 /\ MatchAt(line, p + w, DashSep)
        ps == {p \in 1..(Len(line) - w - 3) : ok(p)}
    IN IF ps = {} THEN 0 ELSE CHOOSE p \in ps : \A q \in ps : p <= q

CollegeCodeWidth == 4

BranchCodeWidth == 9

\* branch_pattern = r'(\d{9}) - (.+?)$'
BranchMatch(line) == CodeDashPos(line, BranchCodeWidth) # 0

BranchCode(line) ==
    LET p == CodeDashPos(line, BranchCodeWidth)
    IN SubSeq(line, p, p + BranchCodeWidth - 1)

BranchName(line) ==
    Rest(line, CodeDashPos(line, BranchCodeWidth) + BranchCodeWidth + 3)

\* college_pattern = r'(\d{4}) - (.+?)(?:,\s*([^,\n]+?))?$', re.MULTILINE,
\* searched in the whole page: the first line that holds a match
CollegeLine(lines) ==
    LET ks == {k \in 1..Len(lines) : CodeDashPos(lines[k], CollegeCodeWidth) # 0}
    IN IF ks = {} THEN 0 ELSE CHOOSE k \in ks : \A m \in ks : k <= m

\* the text after "dddd - " ; group 3 is what follows its last comma when
\* that is non-empty and at least one character precedes the comma
CollegeTail(line) ==
    Rest(line, CodeDashPos(line, CollegeCodeWidth) + CollegeCodeWidth + 3)

CollegeComma(line) ==
    LET t == CollegeTail(line)
        cs == {c \in 2..(Len(t) - 1) :
                 t[c] = "," /\ \A m \in (c+1)..Len(t) : t[m] # ","}
    IN IF cs = {} THEN 0 ELSE CHOOSE c \in cs : TRUE

CollegeCode(line) ==
    LET p == CodeDashPos(line, CollegeCodeWidth)
    IN SubSeq(line, p, p + CollegeCodeWidth - 1)

CollegeName(line) ==
    LET t == CollegeTail(line)
        c == CollegeComma(line)
    IN Strip(IF c = 0 THEN t ELSE SubSeq(t, 1, c - 1))

\* "Unknown"
Unknown == <<"U","n","k","n","o","w","n">>

CollegeDistrict(line) ==
    LET t == CollegeTail(line)
        c == CollegeComma(line)
    IN IF c = 0 THEN Unknown ELSE Strip(Rest(t, c + 1))

\* "Status: "
StatusPrefix == <<"S","t","a","t","u","s",":"," ">>

\* status_pattern = r'Status: (.+?)$', re.MULTILINE; '' when absent
InstituteStatus(lines) ==
    LET ok(k) == LET p == Find(lines[k], StatusPrefix)
                 IN p # 0 /\ p + Len(StatusPrefix) <= Len(lines[k])
        ks == {k \in 1..Len(lines) : ok(k)}
    IN IF ks = {} THEN <<>>
       ELSE LET k == CHOOSE k \in ks : \A m \in ks : k <= m
            IN Rest(lines[k], Find(lines[k], StatusPrefix) + Len(StatusPrefix))

SectionHH ==
    <<"H","o","m","e"," ","U","n","i","v","e","r","s","i","t","y"," ","S","e","a","t","s"," ","A","l","l","o","t","t","e","d"," ","t","o"," ","H","o","m","e"," ","U","n","i","v","e","r","s","i","t","y"," ","C","a","n","d","i","d","a","t","e","s">>
\* "Other Than Home University Seats Allotted to Other Than Home University Candidates"
SectionOO ==
    <<"O","t","h","e","r"," ","T","h","a","n"," ","H","o","m","e"," ","U","n","i","v","e","r","s","i","t","y"," ","S","e","a","t","s"," ","A","l","l","o","t","t","e","d"," ","t","o"," ","O","t","h","e","r"," ","T","h","a","n"," ","H","o","m","e"," ","U","n","i","v","e","r","s","i","t","y"," ","C","a","n","d","i","d","a","t","e","s">>
\* "Home University Seats Allotted to Other Than Home University Candidates"
SectionHO ==
    <<"H","o","m","e"," ","U","n","i","v","e","r","s","i","t","y"," ","S","e","a","t","s"," ","A","l","l","o","t","t","e","d"," ","t","o"," ","O","t","h","e","r"," ","T","h","a","n"," ","H","o","m","e"," ","U","n","i","v","e","r","s","i","t","y"," ","C","a","n","d","i","d","a","t","e","s">>
\* "Other Than Home University Seats Allotted to Home University Candidates"
SectionOH ==
    <<"O","t","h","e","r"," ","T","h","a","n"," ","H","o","m","e"," ","U","n","i","v","e","r","s","i","t","y"," ","S","e","a","t","s"," ","A","l","l","o","t","t","e","d"," ","t","o"," ","H","o","m","e"," ","U","n","i","v","e","r","s","i","t","y"," ","C","a","n","d","i","d","a","t","e","s">>
\* "State Level"
SectionSL ==
    <<"S","t","a","t","e"," ","L","e","v","e","l">>

\* the alternatives of section_pattern, in the order of the alternation
SectionPhrases == <<SectionHH, SectionOO, SectionHO, SectionOH, SectionSL>>

SectionHits(line) ==
    {p \in 1..Len(line) : \E a \in 1..Len(SectionPhrases) :
                             MatchAt(line, p, SectionPhrases[a])}

\* section_pattern: re.search succeeds
SectionMatch(line) == SectionHits(line) # {}

\* group(1): leftmost position, first alternative that matches there
SectionLabel(line) ==
    LET p == CHOOSE q \in SectionHits(line) : \A r \in SectionHits(line) : q <= r
        a == CHOOSE b \in 1..Len(SectionPhrases) :
               /\ MatchAt(line, p, SectionPhrases[b])
               /\ \A c \in 1..(b-1) : ~MatchAt(line, p, SectionPhrases[c])
    IN SectionPhrases[a]

\* "Stage"
StageWord == <<"S","t","a","g","e">>

\* seat_type_pattern = r'Stage\s+(.+?)$': leftmost "Stage" followed by a
\* whitespace character and at least one more character
SeatTypePos(line) ==
    LET ps == {p \in 1..Len(line) :
                 /\ MatchAt(line, p, StageWord)
                 /\ p + 6 <= Len(line)
                 /\ line[p + 5] \in Whitespace}
    IN IF ps = {} THEN 0 ELSE CHOOSE p \in ps : \A q \in ps : p <= q

SeatTypeMatch(line) == SeatTypePos(line) # 0

\* group(1): what follows the whitespace run; when the run reaches the end
\* of the line \s+ gives its last character back
SeatTypeGroup(line) ==
    LET t == Rest(line, SeatTypePos(line) + 5)
        u == LStripSet(t, Whitespace)
    IN IF u # <<>> THEN u ELSE Rest(t, Len(t))

SeatPunctuation == {":", ";", ",", "."}

\* the corrections dict of the nested normalize_seat_type, as key/value pairs
SeatCorrections ==
    << <<<<"E","W","W","S">>,     <<"E","W","S">>>>,
       <<<<"N","T","1","0">>,     <<"N","T","1","O">>>>,
       <<<<"G","N","T","1","0">>, <<"G","N","T","1","O">>>>,
       <<<<"N","T","2","0">>,     <<"N","T","2","O">>>>,
       <<<<"G","N","T","2","0">>, <<"G","N","T","2","O">>>>,
       <<<<"N","T","3","0">>,     <<"N","T","3","O">>>>,
       <<<<"G","N","T","3","0">>, <<"G","N","T","3","O">>>>,
       <<<<"L","V","J","S","S">>, <<"L","V","J","S">>>> >>

\* re.match(r'^[GL]?NT\d0$', s)
NTZeroMatch(s) ==
    LET t == IF Len(s) >= 1 /\ s[1] \in {"G", "L"} THEN Rest(s, 2) ELSE s
    IN /\ Len(t) = 4
       /\ t[1] = "N" /\ t[2] = "T" /\ t[3] \in Digits /\ t[4] = "0"

\* normalize_seat_type removing one trailing punctuation character only
normalize_seat_type_one_char(seat_type) ==
    LET t == Strip(seat_type)
        u == IF t # <<>> /\ t[Len(t)] \in SeatPunctuation
             THEN SubSeq(t, 1, Len(t) - 1) ELSE t
        s == Upper(u)
    IN IF \E k \in 1..Len(SeatCorrections) : SeatCorrections[k][1] = s
       THEN SeatCorrections[CHOOSE k \in 1..Len(SeatCorrections) :
                              SeatCorrections[k][1] = s][2]
       ELSE IF NTZeroMatch(s)
            THEN SubSeq(s, 1, Len(s) - 1) \o <<"O">>
            ELSE Strip(s)

\* normalize_seat_type as nested in extract_data_to_excel
normalize_seat_type(seat_type) ==
    LET s == Upper(RStripSet(Strip(seat_type), SeatPunctuation))
    IN IF \E k \in 1..Len(SeatCorrections) : SeatCorrections[k][1] = s
       THEN SeatCorrections[CHOOSE k \in 1..Len(SeatCorrections) :
                              SeatCorrections[k][1] = s][2]
       ELSE IF NTZeroMatch(s)
            THEN SubSeq(s, 1, Len(s) - 1) \o <<"O">>
            ELSE Strip(s)

\* [normalize_seat_type(st) for st in group.split()]
NormalizeAll(group) ==
    LET toks == Split(group)
    IN [k \in 1..Len(toks) |-> normalize_seat_type(toks[k])]

\* the corrections dict of the module-level normalize_seat_type
ModuleSeatCorrections ==
    << <<<<"E","W","W","S">>,         <<"E","W","S">>>>,
       <<<<"N","T","1","0">>,         <<"N","T","1","O">>>>,
       <<<<"G","N","T","1","0">>,     <<"G","N","T","1","O">>>>,
       <<<<"N","T","2","0">>,         <<"N","T","2","O">>>>,
       <<<<"G","N","T","2","0">>,     <<"G","N","T","2","O">>>>,
       <<<<"N","T","3","0">>,         <<"N","T","3","O">>>>,
       <<<<"G","N","T","3","0">>,     <<"G","N","T","3","O">>>>,
       <<<<"L","V","J","S","S">>,     <<"L","V","J","S">>>>,
       <<<<"G","N","T","3","0",",">>, <<"G","N","T","3","O">>>>,
       <<<<"L","N","T","1","0">>,     <<"L","N","T","1","O">>>> >>

IsUpperLetter(c) == \E k \in 1..26 : UpperLetters[k] = c

\* re.match(r'^[GL]?[A-Z]{1,4}0$', s): letters then a final 0; one to four
\* letters, or five when the first is the prefix G or L
LetterZeroMatch(s) ==
    LET n == Len(s) - 1
    IN /\ n >= 1
       /\ s[Len(s)] = "0"
       /\ \A k \in 1..n : IsUpperLetter(s[k])
       /\ (n <= 4 \/ (n = 5 /\ s[1] \in {"G", "L"}))

\* str.replace(c, '')
RemoveAll(s, c) == SelectSeq(s, LAMBDA x : x # c)

\* normalize_seat_type as defined at module level
module_normalize_seat_type(seat_type) ==
    LET s == Upper(RemoveAll(seat_type, ":"))
        corrected ==
            IF \E k \in 1..Len(ModuleSeatCorrections) :
                    ModuleSeatCorrections[k][1] = s
            THEN ModuleSeatCorrections[
                     CHOOSE k \in 1..Len(ModuleSeatCorrections) :
                         ModuleSeatCorrections[k][1] = s][2]
            ELSE s
    IN IF LetterZeroMatch(corrected)
       THEN SubSeq(corrected, 1, Len(corrected) - 1) \o <<"O">>
       ELSE corrected

RankMarkers == {"i", "I", "1"}

RankNoise == {"l", "}"} \cup Whitespace

\* rank_pattern = r'^\s*[iI1][l}l\s]*(.+)$': the marker opens the line
\* (after leading whitespace) and at least one character follows it
RankMatch(line) ==
    LET s == LStripSet(line, Whitespace)
    IN Len(s) >= 2 /\ s[1] \in RankMarkers

\* group(1): what follows the greedy noise run; when the run reaches the end
\* of the line it gives its last character back
RankGroup(line) ==
    LET s == LStripSet(line, Whitespace)
        t == Rest(s, 2)
        u == LStripSet(t, RankNoise)
    IN IF u # <<>> THEN u ELSE Rest(t, Len(t))

\* the whitespace-separated tokens of a rank line after its marker
TokensAfterMarker(l) == Split(Rest(LStripSet(l, Whitespace), 2))

\* the tokens the rank handler skips
NoiseTokens == {<<"}">>, <<"l","}">>, <<"i","l","}">>}

\* ocr_corrections, as key/value pairs
OcrCorrections ==
    << <<<<"2","m">>,     <<"2","0","1">>>>,
       <<<<"S","7","7">>, <<"5","7","7">>>>,
       <<<<"M","6">>,     <<"3","4","6">>>>,
       <<<<"l","}">>,     <<>>>>,
       <<<<"i","l","}">>, <<>>>> >>

\* ocr_corrections.get(token, token)
CorrectToken(token) ==
    IF \E k \in 1..Len(OcrCorrections) : OcrCorrections[k][1] = token
    THEN OcrCorrections[CHOOSE k \in 1..Len(OcrCorrections) :
                          OcrCorrections[k][1] = token][2]
    ELSE token

\* the token loop appending only the tokens that hold a number
RECURSIVE RanksOfDigitsOnly(_)
RanksOfDigitsOnly(tokens) ==
    IF tokens = <<>> THEN <<>>
    ELSE LET token == Head(tokens)
             corrected == CorrectToken(token)
             numbers == FirstNumber(corrected)
         IN IF token = <<"}">> \/ corrected = <<>> \/ numbers = <<>>
            THEN RanksOfDigitsOnly(Tail(tokens))
            ELSE <<numbers>> \o RanksOfDigitsOnly(Tail(tokens))

\* the token loop of the rank handler: one slot per kept token
RECURSIVE RanksOf(_)
RanksOf(tokens) ==
    IF tokens = <<>> THEN <<>>
    ELSE LET token == Head(tokens)
             corrected == CorrectToken(token)
             numbers == FirstNumber(corrected)
         IN IF token = <<"}">> \/ corrected = <<>>
            THEN RanksOf(Tail(tokens))
            ELSE <<IF numbers # <<>> THEN numbers ELSE corrected>>
                   \o RanksOf(Tail(tokens))

\* the ranks read from a rank line; <<>> stands for ranks = None
ParseRanks(line) == RanksOf(Split(Strip(RankGroup(line))))

\* the tokens for which "Could not extract number" is logged
RECURSIVE NoNumberTokens(_)
NoNumberTokens(tokens) ==
    IF tokens = <<>> THEN 0
    ELSE LET token == Head(tokens)
             corrected == CorrectToken(token)
         IN (IF token # <<"}">> /\ corrected # <<>> /\ FirstNumber(corrected) = <<>>
             THEN 1 ELSE 0) + NoNumberTokens(Tail(tokens))

PercentileChars == Digits \cup Whitespace \cup {".", "(", ")"}

\* percentile_pattern = r'^\s*\(([\d.\s\(\)]+)\)$'
PercentileMatch(line) ==
    LET s == LStripSet(line, Whitespace)
    IN /\ Len(s) >= 3
       /\ s[1] = "(" /\ s[Len(s)] = ")"
       /\ \A k \in 2..(Len(s) - 1) : s[k] \in PercentileChars

\* ") ("
PercentileSep == <<")"," ","(">>

\* group(1).split(') ('), then p.strip('()') for each piece
ParsePercentiles(line) ==
    LET s == LStripSet(line, Whitespace)
        pieces == SplitOn(SubSeq(s, 2, Len(s) - 1), PercentileSep)
    IN [k \in 1..Len(pieces) |-> StripSet(pieces[k], {"(", ")"})]

----------------------------------------------------------------------------
(* Input texts.  A page is page_content.split('\n') as clean_ocr_text      *)
(* writes it: an empty first line, the stripped non-empty lines of the     *)
(* page, an empty last line.                                               *)

\* "2002 - N, D"
InstituteHeader ==
    <<"2","0","0","2"," ","-"," ","N",","," ","D">>
\* "223456789 - CE"
BranchA ==
    <<"2","2","3","4","5","6","7","8","9"," ","-"," ","C","E">>
\* "123456780 - IT"
BranchB ==
    <<"1","2","3","4","5","6","7","8","0"," ","-"," ","I","T">>
\* "State Level"
SectionLine ==
    <<"S","t","a","t","e"," ","L","e","v","e","l">>
\* "Stage GOPEN LOPEN"
StageTwo ==
    <<"S","t","a","g","e"," ","G","O","P","E","N"," ","L","O","P","E","N">>
\* "Stage EWWS:"
StageOne ==
    <<"S","t","a","g","e"," ","E","W","W","S",":">>
\* "i 100 200 300"
RankThree ==
    <<"i"," ","1","0","0"," ","2","0","0"," ","3","0","0">>
\* "I 150"
RankOne ==
    <<"I"," ","1","5","0">>
\* "(90.1) (80.2)"
PercentileTwo ==
    <<"(","9","0",".","1",")"," ","(","8","0",".","2",")">>

\* "i 100 200"
RankTwo ==
    <<"i"," ","1","0","0"," ","2","0","0">>
\* "i 150 210"
RankTwoB ==
    <<"i"," ","1","5","0"," ","2","1","0">>

\* "22345678 - ME": a branch header with a code of eight digits
BranchShort ==
    <<"2","2","3","4","5","6","7","8"," ","-"," ","M","E">>
\* "1002 - N, D": an institute header that starts with a rank marker
InstituteHeaderOne ==
    <<"1","0","0","2"," ","-"," ","N",","," ","D">>
\* "Information Technology": wrapped text that starts with a rank marker
WrappedText ==
    <<"I","n","f","o","r","m","a","t","i","o","n"," ","T","e","c","h","n","o","l","o","g","y">>
\* "Stage GOPEN LOPEN GNT10"
StageThree ==
    <<"S","t","a","g","e"," ","G","O","P","E","N"," ","L","O","P","E","N"," ","G","N","T","1","0">>

\* "Status: Govt"
StatusLine ==
    <<"S","t","a","t","u","s",":"," ","G","o","v","t">>

\* "I Stage EWWS": fits seat_type_pattern and rank_pattern
MarkedStage ==
    <<"I"," ","S","t","a","g","e"," ","E","W","W","S">>
\* "I }": a rank line none of whose tokens gives a rank
RankNone ==
    <<"I"," ","}">>
\* "3002 - N": an institute header without location fragment
InstituteHeaderPlain ==
    <<"3","0","0","2"," ","-"," ","N">>

\* the lines of the exhaustively enumerated pages
BodyLines ==
    {BranchA, BranchB, SectionLine, StageTwo, RankThree, RankOne,
     PercentileTwo}

MaxLines == 4

MaxPages == 2

MaxBatchSize == 2

RECURSIVE SeqsUpTo(_, _)
SeqsUpTo(S, n) ==
    IF n = 0 THEN {<<>>}
    ELSE LET shorter == SeqsUpTo(S, n - 1)
         IN shorter \cup {Append(b, x) : b \in {c \in shorter : Len(c) = n - 1},
                                         x \in S}

PageOf(body) == << <<>> >> \o body \o << <<>> >>

\* one-page documents: the institute header on top, then every body of at
\* most MaxLines lines
DeepPages ==
    {PageOf(<<InstituteHeader>> \o b) : b \in SeqsUpTo(BodyLines, MaxLines)}

\* a seat-type row and a rank line before the first branch header
PageEarlyRows ==
    PageOf(<<InstituteHeader, StageTwo, RankTwo, BranchA, StageOne, RankOne>>)

\* another institute, with a status line; ends with pending percentiles
PageWithStatus ==
    PageOf(<<InstituteHeaderOne, StatusLine, BranchB, StageTwo, RankTwo,
             PercentileTwo>>)

\* longer pages, also the pages of the multi-page documents: two stages
\* under one header; a percentile line between two stages; two seat-type
\* rows, a section header and two branches; two pages without institute
\* header line, one of them with a branch header; a page with a seat-type
\* row and a rank line before its first branch header; a page of another
\* institute with a status line
SamplePages ==
    { PageOf(<<InstituteHeader, BranchA, StageTwo, RankTwo, RankTwoB>>),
      PageOf(<<InstituteHeader, BranchB, StageOne, RankOne, PercentileTwo,
               RankThree>>),
      PageOf(<<InstituteHeader, BranchA, StageTwo, RankTwo, PercentileTwo,
               StageOne, RankOne, SectionLine, StageTwo, RankTwoB,
               BranchB, StageTwo, RankThree>>),
      PageOf(<<StageTwo, RankThree>>),
      PageOf(<<BranchA, StageTwo, RankThree>>),
      PageEarlyRows,
      PageWithStatus }

\* documents of three pages in which a page comes back after other pages
RepeatingDocuments ==
    { <<PageEarlyRows, PageWithStatus, PageEarlyRows>>,
      <<PageWithStatus, PageEarlyRows, PageWithStatus>> }

\* further one-page documents: a branch header with a short code after a
\* complete row; wrapped text and an institute header that start with a rank
\* marker; three seat types with three ranks and two percentiles; a
\* seat-type header that starts with a rank marker; institute headers
\* without location fragment, with and without a status line; a rank line
\* without ranks between two stages; a stage of one rank before a stage of
\* two under a header of two labels
ExtraPages ==
    { PageOf(<<InstituteHeader, BranchA, StageTwo, RankTwo, BranchShort,
               StageTwo, RankTwoB>>),
      PageOf(<<InstituteHeader, BranchA, StageTwo, RankTwo, WrappedText,
               PercentileTwo>>),
      PageOf(<<InstituteHeaderOne, BranchA, StageTwo, RankTwo>>),
      PageOf(<<InstituteHeader, BranchA, StageThree, RankThree,
               PercentileTwo>>),
      PageOf(<<InstituteHeader, BranchA, StageTwo, RankTwo, MarkedStage,
               RankOne>>),
      PageOf(<<InstituteHeaderPlain, StatusLine, BranchA, StageTwo,
               RankTwo>>),
      PageOf(<<InstituteHeaderPlain, BranchA, StageTwo, RankTwo>>),
      PageOf(<<InstituteHeader, BranchA, StageTwo, RankTwo, RankNone,
               RankTwoB>>),
      PageOf(<<InstituteHeader, BranchA, StageTwo, RankOne, RankTwo>>) }

Documents ==
    {<<p>> : p \in DeepPages \cup ExtraPages}
    \cup {d \in SeqsUpTo(SamplePages, MaxPages) : Len(d) >= 1}
    \cup RepeatingDocuments

\* every line that occurs in a document
InputLines ==
    UNION {{pg[k] : k \in 1..Len(pg)} :
              pg \in DeepPages \cup SamplePages \cup ExtraPages}

\* a dispatch that tries rank_pattern first
LineClassRankFirst(l) ==
    IF RankMatch(l) THEN "rank"
    ELSE IF BranchMatch(l) THEN "branch"
    ELSE IF SectionMatch(l) THEN "section"
    ELSE IF SeatTypeMatch(l) THEN "seat_type"
    ELSE IF PercentileMatch(l) THEN "percentile"
    ELSE "other"

\* the class of a stripped line: the first pattern of the line loop that
\* matches it
LineClass(l) ==
    IF BranchMatch(l) THEN "branch"
    ELSE IF SectionMatch(l) THEN "section"
    ELSE IF SeatTypeMatch(l) THEN "seat_type"
    ELSE IF RankMatch(l) THEN "rank"
    ELSE IF PercentileMatch(l) THEN "percentile"
    ELSE "other"

\* LineClass tabulated over the input lines (evaluated once)
ClassOf == [l \in {Strip(x) : x \in InputLines} |-> LineClass(l)]


----------------------------------------------------------------------------
(* State of one call of extract_data_to_excel(text, log_container,         *)
(* batch_size)                                                             *)

VARIABLES
    text,                 \* pages: the page_content of each <PAGE, as lines
    batch_size,
    pc,                   \* "batch", "page", "line", "hung", "done"
    start,                \* first page of the current batch (0-based)
    page_idx,             \* current page (0-based)
    i,                    \* current line of the page (0-based)
    college_code, institute_name, district, institute_status,
    current_branch_code, current_branch_name, current_section,
    base_seat_types, seat_types, ranks, percentiles, current_stage,
    sr_no, batch_data, data,
    warnings,             \* logging.warning calls: <<page_idx, kind>>
    seat_src, rank_src, pct_src,   \* history: line that set base_seat_types,
                                   \* ranks, percentiles (-1: none)
    flushes,              \* history: the add_rows calls
    accepted,             \* history: <<page, line>> of the rank lines read
                          \* with seat types and a branch code set
    fn,                   \* a single call of a helper: which one ("extract"
                          \* when the whole extraction runs instead)
    arg,                  \* its argument
    res,                  \* its return value
    again,                \* the return value of the helper applied to res
    fpc                   \* "ready", "applied", "reapplied"

pageVars == <<college_code, institute_name, district, institute_status>>

rowVars == <<current_branch_code, current_branch_name, current_section,
             base_seat_types, seat_types, ranks, percentiles, current_stage>>

srcVars == <<seat_src, rank_src, pct_src>>

outVars == <<sr_no, batch_data, flushes>>

callVars == <<fn, arg, res, again, fpc>>

scanVars == <<text, batch_size, pc, start, page_idx, i, pageVars, rowVars,
              sr_no, batch_data, data, warnings, srcVars, flushes, accepted>>

vars == <<scanVars, callVars>>

total_pages == Len(text)

\* end = min(start + batch_size, total_pages)
end == Min(start + batch_size, total_pages)

\* lines = page_content.split('\n')
lines == text[page_idx + 1]

\* line = lines[i].strip()
line == Strip(lines[i + 1])

\* every record appended so far, in emission order
AllRecords == data \o batch_data

Init ==
    /\ text \in Documents
    /\ batch_size \in (IF Len(text) = 1 THEN {MaxBatchSize} ELSE 1..MaxBatchSize)
    /\ pc = "batch"
    /\ start = 0
    /\ page_idx = 0
    /\ i = 0
    /\ college_code = None /\ institute_name = None
    /\ district = None /\ institute_status = None
    /\ current_branch_code = None /\ current_branch_name = None
    /\ current_section = None
    /\ base_seat_types = <<>> /\ seat_types = <<>>
    /\ ranks = <<>> /\ percentiles = <<>>
    /\ current_stage = 1
    /\ sr_no = 1
    /\ batch_data = <<>>
    /\ data = <<>>
    /\ warnings = <<>>
    /\ seat_src = -1 /\ rank_src = -1 /\ pct_src = -1
    /\ flushes = <<>>
    /\ accepted = {}
    /\ fn = "extract" /\ arg = <<>> /\ res = None /\ again = None
    /\ fpc = "ready"

----------------------------------------------------------------------------
(* add_rows                                                                *)

\* a row that takes the first percentile whatever its position
RowFirstPercentile(sr, j) ==
    [sr |-> sr, stage |-> current_stage, district |-> district,
     institute_status |-> institute_status, college_code |-> college_code,
     institute_name |-> institute_name,
     branch_code |-> current_branch_code, branch_name |-> current_branch_name,
     seat_type |-> seat_types[j + 1],
     rank |-> ranks[j + 1],
     percentile |-> IF Truthy(percentiles) THEN percentiles[1] ELSE None]

\* the row appended for position j (0-based) with serial number sr
Row(sr, j) ==
    [sr |-> sr, stage |-> current_stage, district |-> district,
     institute_status |-> institute_status, college_code |-> college_code,
     institute_name |-> institute_name,
     branch_code |-> current_branch_code, branch_name |-> current_branch_name,
     seat_type |-> seat_types[j + 1],
     rank |-> ranks[j + 1],
     percentile |-> IF Truthy(percentiles) /\ j < Len(percentiles)
                    THEN percentiles[j + 1] ELSE None]

\* AddRowsLoop without "sr_no += 1" in the loop body
RECURSIVE AddRowsLoopNoIncrement(_, _)
AddRowsLoopNoIncrement(j, sr) ==
    IF j >= Len(seat_types) THEN <<>>
    ELSE IF j < Len(ranks)
         THEN <<Row(sr, j)>> \o AddRowsLoopNoIncrement(j + 1, sr)
         ELSE AddRowsLoopNoIncrement(j + 1, sr)

\* for j, seat_type in enumerate(seat_types): if j < len(ranks): append, sr_no += 1
RECURSIVE AddRowsLoop(_, _)
AddRowsLoop(j, sr) ==
    IF j >= Len(seat_types) THEN <<>>
    ELSE IF j < Len(ranks)
         THEN <<Row(sr, j)>> \o AddRowsLoop(j + 1, sr + 1)
         ELSE AddRowsLoop(j + 1, sr)

\* a guard of add_rows that does not test current_branch_code
RowCompleteNoBranch ==
    Truthy(seat_types) /\ Truthy(ranks)

\* the guard of add_rows
RowComplete ==
    Truthy(seat_types) /\ Truthy(ranks) /\ Truthy(current_branch_code)

\* add_rows leaving its loop after the first row
add_rows_first_only == IF RowComplete THEN <<Row(sr_no, 0)>> ELSE <<>>

\* the rows one call of add_rows appends in the current state
add_rows == IF RowComplete THEN AddRowsLoop(0, sr_no) ELSE <<>>

\* the warning of the else branch of add_rows
AddRowsWarning == IF RowComplete THEN <<>> ELSE <<<<page_idx, "skip_rows">>>>

\* history record of one add_rows call at line index at
FlushEntry(at) ==
    [page |-> page_idx, at |-> at,
     seat_types |-> seat_types, ranks |-> ranks, percentiles |-> percentiles,
     branch_code |-> current_branch_code, branch_name |-> current_branch_name,
     stage |-> current_stage,
     seat_src |-> seat_src, rank_src |-> rank_src, pct_src |-> pct_src,
     base |-> Len(AllRecords), n |-> Len(add_rows)]

\* the effect of calling add_rows() on sr_no, batch_data and the history
CallAddRows ==
    /\ batch_data' = batch_data \o add_rows
    /\ sr_no' = sr_no + Len(add_rows)
    /\ flushes' = Append(flushes, FlushEntry(i))

----------------------------------------------------------------------------
(* Batch and page loops                                                    *)

\* for start in range(0, total_pages, batch_size): batch_data = []
StartBatch ==
    /\ pc = "batch"
    /\ start < total_pages
    /\ batch_data' = <<>>
    /\ page_idx' = start
    /\ pc' = "page"
    /\ UNCHANGED <<text, batch_size, start, i, pageVars, rowVars, sr_no, data,
                   warnings, srcVars, flushes, accepted>>
    /\ UNCHANGED callVars

\* the batch loop is over: the DataFrame is built from data
Finish ==
    /\ pc = "batch"
    /\ start >= total_pages
    /\ pc' = "done"
    /\ UNCHANGED <<text, batch_size, start, page_idx, i, pageVars, rowVars,
                   sr_no, batch_data, data, warnings, srcVars, flushes, accepted>>
    /\ UNCHANGED callVars

\* a per-page initialisation that keeps the branch of the page before
StartPageKeepsBranch ==
    /\ pc = "page"
    /\ page_idx < end
    /\ CollegeLine(lines) # 0
    /\ LET header == lines[CollegeLine(lines)]
       IN /\ college_code' = CollegeCode(header)
          /\ institute_name' = CollegeName(header)
          /\ district' = CollegeDistrict(header)
    /\ institute_status' = InstituteStatus(lines)
    /\ current_section' = None
    /\ base_seat_types' = <<>>
    /\ seat_types' = <<>>
    /\ ranks' = <<>>
    /\ percentiles' = <<>>
    /\ current_stage' = 1
    /\ seat_src' = -1 /\ rank_src' = -1 /\ pct_src' = -1
    /\ i' = 0
    /\ pc' = "line"
    /\ UNCHANGED <<text, batch_size, start, page_idx, sr_no, batch_data, data,
                   warnings, flushes, accepted, current_branch_code,
                   current_branch_name>>
    /\ UNCHANGED callVars

\* a page with a college match: the per-page initialisation
StartPage ==
    /\ pc = "page"
    /\ page_idx < end
    /\ CollegeLine(lines) # 0
    /\ LET header == lines[CollegeLine(lines)]
       IN /\ college_code' = CollegeCode(header)
          /\ institute_name' = CollegeName(header)
          /\ district' = CollegeDistrict(header)
    /\ institute_status' = InstituteStatus(lines)
    /\ current_branch_code' = None
    /\ current_branch_name' = None
    /\ current_section' = None
    /\ base_seat_types' = <<>>
    /\ seat_types' = <<>>
    /\ ranks' = <<>>
    /\ percentiles' = <<>>
    /\ current_stage' = 1
    /\ seat_src' = -1 /\ rank_src' = -1 /\ pct_src' = -1
    /\ i' = 0
    /\ pc' = "line"
    /\ UNCHANGED <<text, batch_size, start, page_idx, sr_no, batch_data, data,
                   warnings, flushes, accepted>>
    /\ UNCHANGED callVars

\* a page without a college match: warning, continue
SkipPage ==
    /\ pc = "page"
    /\ page_idx < end
    /\ CollegeLine(lines) = 0
    /\ warnings' = Append(warnings, <<page_idx, "no_college">>)
    /\ page_idx' = page_idx + 1
    /\ UNCHANGED <<text, batch_size, pc, start, i, pageVars, rowVars, sr_no,
                   batch_data, data, srcVars, flushes, accepted>>
    /\ UNCHANGED callVars

\* the page loop of the batch is over: data.extend(batch_data)
EndBatch ==
    /\ pc = "page"
    /\ page_idx >= end
    /\ data' = data \o batch_data
    /\ batch_data' = <<>>
    /\ start' = start + batch_size
    /\ pc' = "batch"
    /\ UNCHANGED <<text, batch_size, page_idx, i, pageVars, rowVars, sr_no,
                   warnings, srcVars, flushes, accepted>>
    /\ UNCHANGED callVars

----------------------------------------------------------------------------
(* The line loop: one action per class of line, first match wins           *)

AtLine == pc = "line" /\ i < Len(lines)

IsBranch == ClassOf[line] = "branch"

IsSection == ClassOf[line] = "section"

IsSeatType == ClassOf[line] = "seat_type"

IsRank == ClassOf[line] = "rank"

IsPercentile == ClassOf[line] = "percentile"

IsOther == ClassOf[line] = "other"

\* a reset that forgets "ranks = None"
ResetRowKeepsRanks ==
    /\ base_seat_types' = <<>>
    /\ seat_types' = <<>>
    /\ ranks' = ranks
    /\ percentiles' = <<>>
    /\ current_stage' = 1
    /\ seat_src' = -1 /\ rank_src' = rank_src /\ pct_src' = -1

\* the reset shared by the branch and the section handler
ResetRow ==
    /\ base_seat_types' = <<>>
    /\ seat_types' = <<>>
    /\ ranks' = <<>>
    /\ percentiles' = <<>>
    /\ current_stage' = 1
    /\ seat_src' = -1 /\ rank_src' = -1 /\ pct_src' = -1

BranchLine ==
    /\ AtLine /\ IsBranch
    /\ CallAddRows
    /\ warnings' = warnings \o AddRowsWarning
    /\ current_branch_code' = BranchCode(line)
    /\ current_branch_name' = BranchName(line)
    /\ ResetRow
    /\ i' = i + 1
    /\ UNCHANGED <<text, batch_size, pc, start, page_idx, pageVars,
                   current_section, data, accepted>>
    /\ UNCHANGED callVars

SectionHeaderLine ==
    /\ AtLine /\ IsSection
    /\ CallAddRows
    /\ warnings' = warnings \o AddRowsWarning
    /\ current_section' = SectionLabel(line)
    /\ ResetRow
    /\ i' = i + 1
    /\ UNCHANGED <<text, batch_size, pc, start, page_idx, pageVars,
                   current_branch_code, current_branch_name, data, accepted>>
    /\ UNCHANGED callVars

SeatTypeLine ==
    /\ AtLine /\ IsSeatType
    /\ CallAddRows
    /\ warnings' = warnings \o AddRowsWarning
    /\ base_seat_types' = NormalizeAll(SeatTypeGroup(line))
    /\ seat_types' = base_seat_types'
    /\ current_stage' = 1
    /\ seat_src' = i
    /\ i' = i + 1
    /\ UNCHANGED <<text, batch_size, pc, start, page_idx, pageVars,
                   current_branch_code, current_branch_name, current_section,
                   ranks, percentiles, data, rank_src, pct_src, accepted>>
    /\ UNCHANGED callVars

\* the backward search for a 'Stage' line, from prev_line_idx = idx.
\* "found": the loop breaks at line at; "exhausted": prev_line_idx fell
\* below 0; "spins": the line at prev_line_idx is empty, a section header or
\* a percentile line, so the iteration changes nothing and repeats forever
RECURSIVE Backtrack(_)
Backtrack(idx) ==
    IF idx < 0 THEN [kind |-> "exhausted", at |-> idx]
    ELSE LET prev_line == Strip(lines[idx + 1])
         IN IF /\ prev_line # <<>>
               /\ ~SectionMatch(prev_line)
               /\ ~PercentileMatch(prev_line)
            THEN IF SeatTypeMatch(prev_line)
                 THEN [kind |-> "found", at |-> idx]
                 ELSE Backtrack(idx - 1)
            ELSE [kind |-> "spins", at |-> idx]

\* if not base_seat_types and current_section
Backtracks == ~Truthy(base_seat_types) /\ Truthy(current_section)

\* a rank handler that overwrites the pending ranks without add_rows()
RankFlushOmitted == UNCHANGED <<outVars, current_stage>>

\* the first step of the rank handler:
\* if ranks and seat_types and current_branch_code: add_rows(); current_stage += 1
RankFlush ==
    IF RowComplete
    THEN /\ CallAddRows
         /\ current_stage' = current_stage + 1
    ELSE UNCHANGED <<outVars, current_stage>>

\* a rank line whose backward search never ends
RankLineHangs ==
    /\ AtLine /\ IsRank
    /\ Backtracks /\ Backtrack(i - 1).kind = "spins"
    /\ RankFlush
    /\ pc' = "hung"
    /\ UNCHANGED <<text, batch_size, start, page_idx, i, pageVars,
                   current_branch_code, current_branch_name, current_section,
                   base_seat_types, seat_types, ranks, percentiles,
                   data, warnings, srcVars, accepted>>
    /\ UNCHANGED callVars

\* a rank handler that slices the pending seat_types, not base_seat_types
RankLineShrinks ==
    /\ AtLine /\ IsRank
    /\ ~(Backtracks /\ Backtrack(i - 1).kind = "spins")
    /\ RankFlush
    /\ LET found == Backtracks /\ Backtrack(i - 1).kind = "found"
           base == IF found
                   THEN NormalizeAll(SeatTypeGroup(Strip(lines[Backtrack(i - 1).at + 1])))
                   ELSE base_seat_types
           parsed == ParseRanks(line)
           tokenWarnings ==
               [k \in 1..NoNumberTokens(Split(Strip(RankGroup(line))))
                  |-> <<page_idx, "rank_token">>]
       IN /\ base_seat_types' = base
          /\ seat_src' = IF found THEN Backtrack(i - 1).at ELSE seat_src
          /\ ranks' = parsed
          /\ rank_src' = IF parsed = <<>> THEN -1 ELSE i
          /\ seat_types' = IF parsed # <<>> /\ Truthy(base)
                           THEN LET from == IF Truthy(seat_types)
                                            THEN seat_types ELSE base
                                IN SubSeq(from, 1, Min(Len(from), Len(parsed)))
                           ELSE seat_types
          /\ warnings' = warnings \o tokenWarnings
                         \o (IF parsed = <<>>
                             THEN <<<<page_idx, "rank_parse">>>>
                             ELSE IF Truthy(base) THEN <<>>
                                  ELSE <<<<page_idx, "no_base">>>>)
          /\ accepted' = IF /\ parsed # <<>> /\ Truthy(base)
                            /\ Truthy(current_branch_code)
                         THEN accepted \cup {<<page_idx, i>>}
                         ELSE accepted
    /\ i' = i + 1
    /\ UNCHANGED <<text, batch_size, pc, start, page_idx, pageVars,
                   current_branch_code, current_branch_name, current_section,
                   percentiles, data, pct_src>>
    /\ UNCHANGED callVars

RankLine ==
    /\ AtLine /\ IsRank
    /\ ~(Backtracks /\ Backtrack(i - 1).kind = "spins")
    /\ RankFlush
    /\ LET found == Backtracks /\ Backtrack(i - 1).kind = "found"
           base == IF found
                   THEN NormalizeAll(SeatTypeGroup(Strip(lines[Backtrack(i - 1).at + 1])))
                   ELSE base_seat_types
           parsed == ParseRanks(line)
           tokenWarnings ==
               [k \in 1..NoNumberTokens(Split(Strip(RankGroup(line))))
                  |-> <<page_idx, "rank_token">>]
       IN /\ base_seat_types' = base
          /\ seat_src' = IF found THEN Backtrack(i - 1).at ELSE seat_src
          /\ ranks' = parsed
          /\ rank_src' = IF parsed = <<>> THEN -1 ELSE i
          /\ seat_types' = IF parsed # <<>> /\ Truthy(base)
                           THEN SubSeq(base, 1, Min(Len(base), Len(parsed)))
                           ELSE seat_types
          /\ warnings' = warnings \o tokenWarnings
                         \o (IF parsed = <<>>
                             THEN <<<<page_idx, "rank_parse">>>>
                             ELSE IF Truthy(base) THEN <<>>
                                  ELSE <<<<page_idx, "no_base">>>>)
          /\ accepted' = IF /\ parsed # <<>> /\ Truthy(base)
                            /\ Truthy(current_branch_code)
                         THEN accepted \cup {<<page_idx, i>>}
                         ELSE accepted
    /\ i' = i + 1
    /\ UNCHANGED <<text, batch_size, pc, start, page_idx, pageVars,
                   current_branch_code, current_branch_name, current_section,
                   percentiles, data, pct_src>>
    /\ UNCHANGED callVars

\* a percentile handler that also calls add_rows()
PercentileLineFlushes ==
    /\ AtLine /\ IsPercentile
    /\ CallAddRows
    /\ percentiles' = ParsePercentiles(line)
    /\ pct_src' = i
    /\ i' = i + 1
    /\ UNCHANGED <<text, batch_size, pc, start, page_idx, pageVars,
                   current_branch_code, current_branch_name, current_section,
                   base_seat_types, seat_types, ranks, current_stage,
                   data, warnings, seat_src, rank_src, accepted>>
    /\ UNCHANGED callVars

PercentileLine ==
    /\ AtLine /\ IsPercentile
    /\ percentiles' = ParsePercentiles(line)
    /\ pct_src' = i
    /\ i' = i + 1
    /\ UNCHANGED <<text, batch_size, pc, start, page_idx, pageVars,
                   current_branch_code, current_branch_name, current_section,
                   base_seat_types, seat_types, ranks, current_stage,
                   sr_no, batch_data, data, warnings, seat_src, rank_src,
                   flushes, accepted>>
    /\ UNCHANGED callVars

OtherLine ==
    /\ AtLine /\ IsOther
    /\ i' = i + 1
    /\ UNCHANGED <<text, batch_size, pc, start, page_idx, pageVars, rowVars,
                   sr_no, batch_data, data, warnings, srcVars, flushes,
                   accepted>>
    /\ UNCHANGED callVars

\* the line loop is over: add_rows(), next page
EndOfPage ==
    /\ pc = "line"
    /\ i >= Len(lines)
    /\ CallAddRows
    /\ warnings' = warnings \o AddRowsWarning
    /\ page_idx' = page_idx + 1
    /\ pc' = "page"
    /\ UNCHANGED <<text, batch_size, start, i, pageVars, rowVars, data,
                   srcVars, accepted>>
    /\ UNCHANGED callVars

Next ==
    \/ StartBatch
    \/ Finish
    \/ StartPage
    \/ SkipPage
    \/ EndBatch
    \/ BranchLine
    \/ SectionHeaderLine
    \/ SeatTypeLine
    \/ RankLine
    \/ RankLineHangs
    \/ PercentileLine
    \/ OtherLine
    \/ EndOfPage

Spec == Init /\ [][Next]_vars

----------------------------------------------------------------------------
(* Single calls of the helpers: the two definitions of normalize_seat_type,*)
(* the token loop of the rank handler and the percentile parsing, each     *)
(* applied to an argument drawn from a bounded set                         *)

\* str.lower()
Lower(s) ==
    [k \in 1..Len(s) |->
        IF IsUpperLetter(s[k])
        THEN LowerLetters[CHOOSE m \in 1..26 : UpperLetters[m] = s[k]]
        ELSE s[k]]

\* str.capitalize()
Capitalize(s) ==
    IF s = <<>> THEN s ELSE <<UpperChar(s[1])>> \o Rest(Lower(s), 2)

\* the keys of the two correction tables
CorrectionKeys ==
    {SeatCorrections[k][1] : k \in 1..Len(SeatCorrections)}
    \cup {ModuleSeatCorrections[k][1] : k \in 1..Len(ModuleSeatCorrections)}

\* seat-type words that are no key of a table
PlainStems ==
    { <<"G","O","P","E","N","0">>, <<"L","S","C","0">>, <<"G","O","P","E","N">>, <<"L","N","T","2","0">>, <<"E","W","S">>, <<"A","0">> }

\* each stem in upper case, lower case and capitalized
SeatStems ==
    UNION {{w, Lower(w), Capitalize(w)} : w \in CorrectionKeys \cup PlainStems}

MaxSuffix == 1

\* stems followed by at most MaxSuffix punctuation characters
StemTokens ==
    {w \o x : w \in SeatStems, x \in SeqsUpTo(SeatPunctuation, MaxSuffix)}

TokenChars == {"G", "N", "T", "e", "0", "1", ":", ","}

MaxTokenLen == 3

\* every whitespace-free token over TokenChars of at most MaxTokenLen characters
ShortTokens == SeqsUpTo(TokenChars, MaxTokenLen)

SeatTokens == StemTokens \cup ShortTokens

\* sep.join(parts)
RECURSIVE Join(_, _)
Join(parts, sep) ==
    IF parts = <<>> THEN <<>>
    ELSE IF Len(parts) = 1 THEN parts[1]
    ELSE parts[1] \o sep \o Join(Tail(parts), sep)

\* rank tokens: digits, a thousands separator, keys of ocr_corrections,
\* noise, a token without digits and one that starts with a noise character
RankTokens ==
    { <<"1","0","0">>, <<"2","m">>, <<"-">>, <<"}">>, <<"l","}">>,
      <<"i","l","}">>, <<"1",",","2","3","4">>, <<"l","0","0">>,
      <<"1","2",",","3","4","5">> }

MaxRankTokens == 3

\* rank lines: a marker, a space, at most MaxRankTokens tokens
RankLines ==
    {<<m>> \o <<" ">> \o Join(t, <<" ">>) :
        m \in {"i", "1"},
        t \in {u \in SeqsUpTo(RankTokens, MaxRankTokens) : u # <<>>}}

PercentileGroups == { <<"9","0",".","1">>, <<"8","0",".","2">> }

\* what separates two groups: one space, two spaces, nothing
PercentileGaps == { <<" ">>, <<" ", " ">>, <<>> }

MaxGroups == 3

\* percentile lines of exactly n parenthesized groups
RECURSIVE PercentileLinesOf(_)
PercentileLinesOf(n) ==
    IF n = 1 THEN {<<"(">> \o g \o <<")">> : g \in PercentileGroups}
    ELSE {l \o gap \o <<"(">> \o g \o <<")">> :
             l \in PercentileLinesOf(n - 1),
             gap \in PercentileGaps, g \in PercentileGroups}

PercentileLines == UNION {PercentileLinesOf(n) : n \in 1..MaxGroups}

CallInit ==
    /\ fn \in {"nested", "module", "rank", "percentile"}
    /\ arg \in (CASE fn = "nested" -> SeatTokens
                  [] fn = "module" -> SeatTokens
                  [] fn = "rank" -> RankLines
                  [] fn = "percentile" -> PercentileLines)
    /\ res = None /\ again = None
    /\ fpc = "ready"
    /\ text = <<>> /\ batch_size = 1
    /\ pc = "done"
    /\ start = 0 /\ page_idx = 0 /\ i = 0
    /\ college_code = None /\ institute_name = None
    /\ district = None /\ institute_status = None
    /\ current_branch_code = None /\ current_branch_name = None
    /\ current_section = None
    /\ base_seat_types = <<>> /\ seat_types = <<>>
    /\ ranks = <<>> /\ percentiles = <<>>
    /\ current_stage = 1
    /\ sr_no = 1
    /\ batch_data = <<>>
    /\ data = <<>>
    /\ warnings = <<>>
    /\ seat_src = -1 /\ rank_src = -1 /\ pct_src = -1
    /\ flushes = <<>>
    /\ accepted = {}

\* the nested normalize_seat_type is called on a token
NormalizeNested ==
    /\ fn = "nested" /\ fpc = "ready"
    /\ res' = normalize_seat_type(arg)
    /\ fpc' = "applied"
    /\ UNCHANGED <<fn, arg, again, scanVars>>

\* ... and once more on what it returned
NormalizeNestedAgain ==
    /\ fn = "nested" /\ fpc = "applied"
    /\ again' = normalize_seat_type(res)
    /\ fpc' = "reapplied"
    /\ UNCHANGED <<fn, arg, res, scanVars>>

\* the module-level normalize_seat_type is called on a token
NormalizeModule ==
    /\ fn = "module" /\ fpc = "ready"
    /\ res' = module_normalize_seat_type(arg)
    /\ fpc' = "applied"
    /\ UNCHANGED <<fn, arg, again, scanVars>>

NormalizeModuleAgain ==
    /\ fn = "module" /\ fpc = "applied"
    /\ again' = module_normalize_seat_type(res)
    /\ fpc' = "reapplied"
    /\ UNCHANGED <<fn, arg, res, scanVars>>

\* the rank handler's parsing of a line that matches rank_pattern:
\* the rank list and the number of "Could not extract number" warnings
ParseRankLine ==
    /\ fn = "rank" /\ fpc = "ready"
    /\ RankMatch(arg)
    /\ res' = [ranks |-> ParseRanks(arg),
               warnings |-> NoNumberTokens(Split(Strip(RankGroup(arg))))]
    /\ fpc' = "applied"
    /\ UNCHANGED <<fn, arg, again, scanVars>>

\* the percentile handler's parsing of a line that matches percentile_pattern
ParsePercentileLine ==
    /\ fn = "percentile" /\ fpc = "ready"
    /\ PercentileMatch(arg)
    /\ res' = ParsePercentiles(arg)
    /\ fpc' = "applied"
    /\ UNCHANGED <<fn, arg, again, scanVars>>

CallNext ==
    \/ NormalizeNested
    \/ NormalizeNestedAgain
    \/ NormalizeModule
    \/ NormalizeModuleAgain
    \/ ParseRankLine
    \/ ParsePercentileLine

CallSpec == CallInit /\ [][CallNext]_vars

----------------------------------------------------------------------------
(* Reading the input text and the history, for the properties below        *)

\* the stripped line k (0-based) of page p (0-based)
TextLine(p, k) == Strip(text[p + 1][k + 1])

PageLen(p) == Len(text[p + 1])

\* the class under which the line loop handles line k of page p
BranchAt(p, k) == k < PageLen(p) /\ ClassOf[TextLine(p, k)] = "branch"

SectionAt(p, k) == k < PageLen(p) /\ ClassOf[TextLine(p, k)] = "section"

SeatTypeAt(p, k) == k < PageLen(p) /\ ClassOf[TextLine(p, k)] = "seat_type"

RankAt(p, k) == k < PageLen(p) /\ ClassOf[TextLine(p, k)] = "rank"

PercentileAt(p, k) == k < PageLen(p) /\ ClassOf[TextLine(p, k)] = "percentile"

Flushes == {flushes[f] : f \in 1..Len(flushes)}

\* the add_rows calls that appended records
Emitting == {e \in Flushes : e.n >= 1}

\* the records an add_rows call appended
RecordsOf(e) == SubSeq(AllRecords, e.base + 1, e.base + e.n)

----------------------------------------------------------------------------
(* Properties                                                              *)

\* C1 (positional alignment): every add_rows call reached with seat types,
\* ranks and a branch code present appends exactly
\* min(len(seat_types), len(ranks)) records, and its j-th record pairs
\* seat_types[j] with ranks[j]; the unmatched tail of either list is dropped.
PositionalAlignment ==
    \A e \in Flushes :
        (Truthy(e.seat_types) /\ Truthy(e.ranks) /\ Truthy(e.branch_code)) =>
            /\ e.n = Min(Len(e.seat_types), Len(e.ranks))
            /\ e.base + e.n <= Len(AllRecords)
            /\ \A j \in 1..e.n :
                   /\ AllRecords[e.base + j].seat_type = e.seat_types[j]
                   /\ AllRecords[e.base + j].rank = e.ranks[j]

\* a run in which one flush dropped a tail of seat types and another flush
\* dropped a tail of ranks
PositionalAlignmentWitness ==
    /\ \E e \in Emitting : Len(e.seat_types) > Len(e.ranks) /\ e.n = Len(e.ranks)
    /\ \E e \in Emitting : Len(e.ranks) > Len(e.seat_types)
                            /\ e.n = Len(e.seat_types)

\* C7 (serial monotonicity): the k-th record appended in the whole run
\* carries serial number k, and the counter is always one past the number
\* of records, so pages and flushes that append nothing consume no number.
SerialMonotonicity ==
    /\ \A k \in 1..Len(AllRecords) : AllRecords[k].sr = k
    /\ sr_no = Len(AllRecords) + 1

\* a finished run of two batches whose two pages both appended records,
\* with add_rows calls that appended nothing in between
SerialMonotonicityWitness ==
    /\ pc = "done" /\ batch_size = 1 /\ Len(text) = 2
    /\ \E e \in Emitting : e.page = 0
    /\ \E e \in Emitting : e.page = 1 /\ e.base >= 2
    /\ \E e \in Flushes : e.page = 1 /\ e.n = 0

\* C10 (no completed row is lost): every rank line read while a seat-type
\* list and a branch code are set is either still the pending row of the
\* page being scanned, or an add_rows call has appended records for its
\* ranks; once the page is left only the second case remains.
NoCompletedRowLost ==
    \A a \in accepted :
        \/ /\ pc \in {"line", "hung"} /\ page_idx = a[1]
           /\ rank_src = a[2] /\ RowComplete
        \/ \E e \in Emitting :
              /\ e.page = a[1] /\ e.rank_src = a[2]
              /\ e.ranks = ParseRanks(TextLine(a[1], a[2]))
              /\ \A j \in 1..e.n : RecordsOf(e)[j].rank = e.ranks[j]

\* a page has been left whose last row was appended by the end-of-page
\* add_rows call
NoCompletedRowLostWitness ==
    /\ pc = "page"
    /\ \E e \in Emitting :
          /\ e.page = page_idx - 1
          /\ e.at = PageLen(e.page)
          /\ <<e.page, e.rank_src>> \in accepted

\* the nearest branch, section or seat-type header before line k (-1: none)
HeaderBefore(p, k) ==
    LET hs == {h \in 0..(k - 1) :
                 BranchAt(p, h) \/ SectionAt(p, h) \/ SeatTypeAt(p, h)}
    IN IF hs = {} THEN -1 ELSE CHOOSE h \in hs : \A g \in hs : g <= h

\* the nearest branch header before line k (-1: none)
LastBranchBefore(p, k) ==
    LET bs == {b \in 0..(k - 1) : BranchAt(p, b)}
    IN IF bs = {} THEN -1 ELSE CHOOSE b \in bs : \A c \in bs : c <= b

\* the normalized seat types of the seat-type header at line h
HeaderSeatTypes(p, h) == NormalizeAll(SeatTypeGroup(TextLine(p, h)))

\* C2 (stage carry): when the nearest header before a rank line is a
\* seat-type row, the records made from that rank line carry as stage the
\* number of rank lines from the header up to it, and pair the header's
\* seat types positionally with the ranks of that line.
StageCarry ==
    \A e \in Emitting :
        LET h == HeaderBefore(e.page, e.rank_src)
        IN (h >= 0 /\ SeatTypeAt(e.page, h)) =>
             /\ e.stage = Cardinality({r \in (h + 1)..e.rank_src : RankAt(e.page, r)})
             /\ e.ranks = ParseRanks(TextLine(e.page, e.rank_src))
             /\ \A j \in 1..e.n :
                    /\ RecordsOf(e)[j].stage = e.stage
                    /\ RecordsOf(e)[j].seat_type = HeaderSeatTypes(e.page, h)[j]
                    /\ RecordsOf(e)[j].rank = e.ranks[j]

\* the add_rows call of a branch or section header line
HeaderFlush(e) == BranchAt(e.page, e.at) \/ SectionAt(e.page, e.at)

\* the row of call e is appended in full, by one call, with the branch and
\* stage that were current before the header
EmittedOnce(e) ==
    /\ e.n = Min(Len(e.seat_types), Len(e.ranks))
    /\ Cardinality({f \in 1..Len(flushes) :
                      flushes[f].page = e.page /\ flushes[f].at = e.at}) = 1
    /\ \A j \in 1..e.n :
           /\ RecordsOf(e)[j].branch_code = e.branch_code
           /\ RecordsOf(e)[j].branch_name = e.branch_name
           /\ RecordsOf(e)[j].stage = e.stage

\* right after a branch or section header line the pending row is empty
\* and the stage is 1
ResetAfterHeader ==
    (pc = "line" /\ i >= 1
       /\ (BranchAt(page_idx, i - 1) \/ SectionAt(page_idx, i - 1))) =>
        /\ seat_types = <<>> /\ ranks = <<>> /\ percentiles = <<>>
        /\ current_stage = 1
        /\ BranchAt(page_idx, i - 1) =>
              current_branch_code = BranchCode(TextLine(page_idx, i - 1))

\* every record carries the code of the last branch header before its
\* add_rows call, and its ranks were read after that header
RanksUnderOwnBranch ==
    \A e \in Emitting :
        LET b == LastBranchBefore(e.page, e.at)
        IN /\ b >= 0
           /\ e.branch_code = BranchCode(TextLine(e.page, b))
           /\ e.rank_src > b

\* C3 as stated (emit-before-reset): a branch or section header line that
\* arrives while the pending row has seat types and ranks emits that row
\* exactly once with the old branch and stage, then leaves the pending row
\* empty and the stage 1; no record pairs a branch code with ranks read
\* before that branch header.
EmitBeforeResetAsStated ==
    /\ ResetAfterHeader
    /\ RanksUnderOwnBranch
    /\ \A e \in Flushes :
          (HeaderFlush(e) /\ Truthy(e.seat_types) /\ Truthy(e.ranks)) =>
              EmittedOnce(e)

\* C3 (emit-before-reset, amended): the same for a header line that arrives
\* while the pending row has seat types and ranks and a branch code is
\* already set.
EmitBeforeReset ==
    /\ ResetAfterHeader
    /\ RanksUnderOwnBranch
    /\ \A e \in Flushes :
          (/\ HeaderFlush(e)
           /\ Truthy(e.seat_types) /\ Truthy(e.ranks) /\ Truthy(e.branch_code)) =>
              EmittedOnce(e)

\* a section header and a later branch header with a new code have each
\* flushed a pending row of the old branch
EmitBeforeResetWitness ==
    /\ \E e \in Emitting : SectionAt(e.page, e.at)
    /\ \E e \in Emitting :
          /\ BranchAt(e.page, e.at)
          /\ e.branch_code # BranchCode(TextLine(e.page, e.at))

\* C4 (seat types are cleared on any structural change): the seat types of
\* a record come from a seat-type row that follows every branch or section
\* header line read before the record was appended.
SeatTypesCleared ==
    \A e \in Emitting :
        \A b \in 0..(e.at - 1) :
            (BranchAt(e.page, b) \/ SectionAt(e.page, b)) => e.seat_src > b

\* C5 (a seat-type header starts a fresh pending row): right after a
\* seat-type line the pending row holds the new seat types and neither
\* ranks nor percentiles; the ranks of one rank line are appended by at
\* most one add_rows call; ranks and percentiles read before a seat-type
\* line are never appended with its seat types.
FreshPendingRow ==
    /\ (pc = "line" /\ i >= 1 /\ SeatTypeAt(page_idx, i - 1)) =>
          /\ seat_types = HeaderSeatTypes(page_idx, i - 1)
          /\ ranks = <<>>
          /\ percentiles = <<>>
    /\ \A f, g \in 1..Len(flushes) :
          (/\ flushes[f].n >= 1 /\ flushes[g].n >= 1
           /\ flushes[f].page = flushes[g].page
           /\ flushes[f].rank_src = flushes[g].rank_src) => f = g
    /\ \A e \in Emitting :
          /\ e.rank_src > e.seat_src
          /\ e.pct_src >= 0 => e.pct_src > e.seat_src

\* C6 (termination): the line scan never enters a backward search that
\* does not end.
ScanTerminates == pc # "hung"

\* C8 (missing percentile tolerance): when no percentile line lies between
\* a rank line and the add_rows call that appends its row, every record of
\* that row has percentile None.
MissingPercentileTolerance ==
    \A e \in Emitting :
        (~\E k \in (e.rank_src + 1)..(e.at - 1) : PercentileAt(e.page, k)) =>
            \A j \in 1..e.n : RecordsOf(e)[j].percentile = None

\* an institute header line: a 4-digit code opening the line, " - ", text
IsInstituteHeader(l) ==
    /\ Len(l) >= CollegeCodeWidth + 4
    /\ \A k \in 1..CollegeCodeWidth : l[k] \in Digits
    /\ MatchAt(l, CollegeCodeWidth + 1, DashSep)

HasInstituteHeader(p) ==
    \E k \in 0..(PageLen(p) - 1) : IsInstituteHeader(TextLine(p, k))

\* C9 (empty page): a page without institute header line appends no record
\* and has logged a warning once it is left, and the run goes on to the end
\* of the document.
EmptyPage ==
    /\ \A p \in 0..(Len(text) - 1) :
          ~HasInstituteHeader(p) =>
              /\ \A e \in Emitting : e.page # p
              /\ (pc = "done" \/ page_idx > p) =>
                    \E w \in 1..Len(warnings) : warnings[w][1] = p
    /\ pc = "done" => page_idx = Len(text)

\* the digits a line starts with
LeadingDigits(l) ==
    IF l = <<>> \/ l[1] \notin Digits THEN <<>> ELSE FirstNumber(l)

\* 'digits - name' with a code that is not of the width of a college code
BranchShaped(l) ==
    LET w == Len(LeadingDigits(l))
    IN /\ w >= 1 /\ w # CollegeCodeWidth
       /\ MatchAt(l, w + 1, DashSep)
       /\ Len(l) >= w + 4

\* a branch header whose code has not the fixed width
OddWidthBranch(l) ==
    BranchShaped(l) /\ Len(LeadingDigits(l)) # BranchCodeWidth

\* the nearest line before line k of page p that is shaped as a branch
\* header, -1 if none
ShapedBranchBefore(p, k) ==
    LET hs == {h \in 0..(k - 1) : BranchShaped(TextLine(p, h))}
    IN IF hs = {} THEN -1 ELSE CHOOSE h \in hs : \A g \in hs : g <= h

\* C11 (branch-code width mismatch is tolerated): a branch header line whose
\* code has not the fixed width is handled as a branch header: the pending
\* row is flushed at it, its code and name are the current branch after it,
\* and the records of a rank line below it carry its code, never the code of
\* the branch before.
WidthMismatchTolerated ==
    /\ (pc = "line" /\ i >= 1 /\ OddWidthBranch(TextLine(page_idx, i - 1))) =>
          LET l == TextLine(page_idx, i - 1)
          IN /\ current_branch_code = LeadingDigits(l)
             /\ current_branch_name = Rest(l, Len(LeadingDigits(l)) + 4)
             /\ \E e \in Flushes : e.page = page_idx /\ e.at = i - 1
    /\ \A e \in Emitting :
          LET h == ShapedBranchBefore(e.page, e.rank_src)
          IN (h >= 0 /\ OddWidthBranch(TextLine(e.page, h)))
                => e.branch_code = LeadingDigits(TextLine(e.page, h))

\* a stripped line that starts with a rank marker
MarkerStart(l) == l # <<>> /\ l[1] \in RankMarkers

\* a group of digits, commas allowed as thousands separators
DigitGroup(t) ==
    /\ \A k \in 1..Len(t) : t[k] \in Digits \cup {","}
    /\ \E k \in 1..Len(t) : t[k] \in Digits

\* the rank shape: one marker, then whitespace-separated digit groups
\* (noise glyphs allowed among them)
RankShape(l) ==
    /\ MarkerStart(l)
    /\ TokensAfterMarker(l) # <<>>
    /\ \A k \in 1..Len(TokensAfterMarker(l)) :
          \/ DigitGroup(TokensAfterMarker(l)[k])
          \/ TokensAfterMarker(l)[k] \in NoiseTokens

\* C17 (rank shape): a line that starts with 'i', 'I' or '1', is no branch,
\* section or seat-type header and has not the rank shape is ignored: the
\* step that handles it emits nothing, does not flush and leaves the stage
\* and the pending seat types, ranks and percentiles unchanged.
RankShapeOnly ==
    [][ (/\ AtLine
         /\ ~IsBranch /\ ~IsSection /\ ~IsSeatType
         /\ MarkerStart(line) /\ ~RankShape(line))
           => UNCHANGED <<seat_types, ranks, percentiles, current_stage,
                          sr_no, batch_data, flushes>> ]_vars

\* C18 (percentile alignment): in every flush that emits, the j-th record
\* carries percentiles[j] when the pending percentile list has a j-th
\* element and None otherwise, and the number of records is
\* min(len(seat_types), len(ranks)) whatever the length of the percentile
\* list.
PercentileAlignment ==
    \A e \in Emitting :
        /\ e.n = Min(Len(e.seat_types), Len(e.ranks))
        /\ \A j \in 1..e.n :
              RecordsOf(e)[j].percentile =
                  IF j <= Len(e.percentiles) THEN e.percentiles[j] ELSE None

\* a flush has emitted three records with a pending list of two different
\* percentiles: two records carry theirs, the third carries None
PercentileAlignmentWitness ==
    \E e \in Emitting :
        /\ e.n = 3 /\ Len(e.percentiles) = 2
        /\ e.percentiles[1] # e.percentiles[2]
        /\ RecordsOf(e)[1].percentile = e.percentiles[1]
        /\ RecordsOf(e)[2].percentile = e.percentiles[2]
        /\ RecordsOf(e)[3].percentile = None

\* page p has been dealt with: scanned to its end, or skipped
PageScanned(p) == p < page_idx \/ pc = "done"

\* the add_rows calls made for page p, as indices of the history
PageFlushIdx(p) == {f \in 1..Len(flushes) : flushes[f].page = p}

\* the number of records emitted before the first add_rows call of page p
PageBase(p) ==
    IF PageFlushIdx(p) = {} THEN 0
    ELSE flushes[CHOOSE f \in PageFlushIdx(p) :
                   \A g \in PageFlushIdx(p) : f <= g].base

\* the records emitted for page p, in order
PageRecords(p) ==
    IF PageFlushIdx(p) = {} THEN <<>>
    ELSE LET last == flushes[CHOOSE f \in PageFlushIdx(p) :
                               \A g \in PageFlushIdx(p) : g <= f]
         IN SubSeq(AllRecords, PageBase(p) + 1, last.base + last.n)

\* a record without its serial number
Unnumbered(r) == [r EXCEPT !.sr = 0]

\* pages p and q gave the same records, up to one offset of the serials
SameRecords(p, q) ==
    LET a == PageRecords(p)
        b == PageRecords(q)
    IN /\ Len(a) = Len(b)
       /\ \A k \in 1..Len(a) :
             /\ Unnumbered(a[k]) = Unnumbered(b[k])
             /\ b[k].sr - a[k].sr = b[1].sr - a[1].sr

\* the context at the first line of a page: institute fields read from the
\* page, everything else fresh
FreshAtPageStart ==
    (pc = "line" /\ i = 0) =>
        /\ college_code = CollegeCode(lines[CollegeLine(lines)])
        /\ institute_name = CollegeName(lines[CollegeLine(lines)])
        /\ district = CollegeDistrict(lines[CollegeLine(lines)])
        /\ institute_status = InstituteStatus(lines)
        /\ current_branch_code = None /\ current_branch_name = None
        /\ current_section = None
        /\ base_seat_types = <<>> /\ seat_types = <<>>
        /\ ranks = <<>> /\ percentiles = <<>>
        /\ current_stage = 1

\* C12 (page independence): the scan of every page starts from a context
\* that holds the page's own institute fields and nothing else, and two
\* pages of a document with the same text, scanned after different earlier
\* pages, give the same records up to a constant offset of the serial
\* numbers.
PageIndependence ==
    /\ FreshAtPageStart
    /\ \A p, q \in 0..(Len(text) - 1) :
          (p < q /\ text[p + 1] = text[q + 1] /\ PageScanned(q))
              => SameRecords(p, q)

\* a document of three pages has been scanned to its end, one page per
\* batch; its first page, which has data before its first branch header,
\* comes back as third page after a page of another institute, and gave
\* the same records both times, the serial numbers shifted by the number of
\* records of the two pages before
PageIndependenceWitness ==
    /\ pc = "done" /\ batch_size = 1
    /\ Len(text) = 3 /\ text[1] = text[3] /\ text[1] # text[2]
    /\ \E k \in 0..(PageLen(0) - 1) :
          /\ RankAt(0, k)
          /\ \A h \in 0..(k - 1) : ~BranchAt(0, h)
    /\ Len(PageRecords(0)) >= 1 /\ Len(PageRecords(1)) >= 1
    /\ PageRecords(1)[1].college_code # PageRecords(0)[1].college_code
    /\ Len(PageRecords(2)) = Len(PageRecords(0))
    /\ PageRecords(2)[1].sr =
          PageRecords(0)[1].sr + Len(PageRecords(0)) + Len(PageRecords(1))

\* C21 (a percentile line does not trigger emission): the step that handles
\* a percentile line emits no record and calls no flush; it sets the pending
\* percentile list to the groups of the line and leaves the serial counter,
\* the stage, the branch, the section, the seat types and the ranks
\* unchanged.
PercentileFrame ==
    [][ (AtLine /\ PercentileMatch(line)
         /\ ~BranchMatch(line) /\ ~SectionMatch(line)
         /\ ~SeatTypeMatch(line) /\ ~RankMatch(line))
           => /\ percentiles' = ParsePercentiles(line)
              /\ UNCHANGED <<sr_no, batch_data, data, flushes, current_stage,
                             current_branch_code, current_branch_name,
                             current_section, base_seat_types, seat_types,
                             ranks>> ]_vars

\* a percentile line has just been handled while a complete row (branch,
\* seat types, ranks) was pending: the row is still pending, with the
\* percentiles of the line, and no flush was made at the line
PercentileFrameWitness ==
    /\ pc = "line" /\ i >= 1
    /\ PercentileAt(page_idx, i - 1)
    /\ RowComplete
    /\ percentiles = ParsePercentiles(TextLine(page_idx, i - 1))
    /\ pct_src = i - 1 /\ rank_src >= 0 /\ rank_src < pct_src
    /\ \A e \in Flushes : ~(e.page = page_idx /\ e.at = i - 1)

\* C22 (first match wins): the step that handles a line performs the action
\* of the first class the line matches, in the order branch header, section
\* header, seat-type-row header, rank line, percentile line, and of no later
\* class: it makes at most one flush, and what it leaves in the branch, the
\* section, the seat types, the ranks and the percentiles is what the
\* handler of that one class leaves.
FirstMatchWins ==
    [][ AtLine =>
          LET b == BranchMatch(line)
              s == ~b /\ SectionMatch(line)
              t == ~b /\ ~s /\ SeatTypeMatch(line)
              r == ~b /\ ~s /\ ~t /\ RankMatch(line)
              p == ~b /\ ~s /\ ~t /\ ~r /\ PercentileMatch(line)
          IN /\ Len(flushes') <= Len(flushes) + 1
             /\ b => /\ current_branch_code' = BranchCode(line)
                     /\ current_branch_name' = BranchName(line)
                     /\ base_seat_types' = <<>> /\ ranks' = <<>>
                     /\ percentiles' = <<>>
                     /\ UNCHANGED current_section
             /\ s => /\ current_section' = SectionLabel(line)
                     /\ base_seat_types' = <<>> /\ ranks' = <<>>
                     /\ percentiles' = <<>>
                     /\ UNCHANGED <<current_branch_code, current_branch_name>>
             /\ t => /\ base_seat_types' = NormalizeAll(SeatTypeGroup(line))
                     /\ current_stage' = 1
                     /\ UNCHANGED <<current_branch_code, current_branch_name,
                                    current_section, ranks, percentiles>>
             /\ r => /\ pc' = "hung" \/ ranks' = ParseRanks(line)
                     /\ UNCHANGED <<current_branch_code, current_branch_name,
                                    current_section, percentiles>>
             /\ p => /\ percentiles' = ParsePercentiles(line)
                     /\ UNCHANGED <<current_branch_code, current_branch_name,
                                    current_section, base_seat_types,
                                    seat_types, ranks, current_stage, flushes>>
             /\ (~b /\ ~s /\ ~t /\ ~r /\ ~p) => UNCHANGED <<rowVars, outVars>> ]_vars

\* a branch header whose code starts with '1', so that it fits rank_pattern
\* too, has just been handled while a complete row was pending: the row was
\* flushed at it, the line's code is the current branch and no ranks are
\* pending
FirstMatchWinsWitness ==
    /\ pc = "line" /\ i >= 1
    /\ BranchMatch(TextLine(page_idx, i - 1))
    /\ RankMatch(TextLine(page_idx, i - 1))
    /\ current_branch_code = BranchCode(TextLine(page_idx, i - 1))
    /\ ranks = <<>>
    /\ \E e \in Emitting : e.page = page_idx /\ e.at = i - 1

\* the institute header of page p: the first line that fits college_pattern
HeaderOf(p) == text[p + 1][CollegeLine(text[p + 1])]

\* the header of page p has no comma after its "dddd - ", hence no location
\* fragment
NoLocationFragment(p) ==
    \A c \in 1..Len(CollegeTail(HeaderOf(p))) : CollegeTail(HeaderOf(p))[c] # ","

\* no line of page p holds "Status: "
NoStatusLine(p) ==
    \A k \in 1..Len(text[p + 1]) : Find(text[p + 1][k], StatusPrefix) = 0

\* the records of a page whose header has no location fragment carry the
\* district "Unknown"
DistrictFallback ==
    \A e \in Emitting : \A k \in 1..e.n :
        NoLocationFragment(e.page) => RecordsOf(e)[k].district = Unknown

\* a page whose header has no location fragment has given records
DistrictFallbackWitness ==
    \E e \in Emitting :
        /\ NoLocationFragment(e.page)
        /\ RecordsOf(e)[1].district = Unknown

\* the records of a page without 'Status:' line carry the institute status
\* "Unknown"
StatusFallback ==
    \A e \in Emitting : \A k \in 1..e.n :
        NoStatusLine(e.page) => RecordsOf(e)[k].institute_status = Unknown

\* C23 (sentinel fallback for page context): a page with an institute header
\* is parsed, and its records carry "Unknown" as district when the header
\* has no location fragment and "Unknown" as institute status when the page
\* has no 'Status:' line.
SentinelFallback == DistrictFallback /\ StatusFallback

\* C24 (branch always set): an add_rows call made before the first branch
\* header of its page appends nothing; every record carries the code and the
\* name of the nearest branch header before its add_rows call, on the same
\* page, neither of them None or empty, and its ranks were read after that
\* header; once the first branch header of a page is handled, the pending
\* row is empty.
BranchAlwaysSet ==
    /\ \A f \in Flushes :
          LET b == LastBranchBefore(f.page, f.at)
          IN /\ b < 0 => f.n = 0
             /\ f.n >= 1 => f.rank_src > b
             /\ \A k \in 1..f.n :
                   LET r == RecordsOf(f)[k]
                   IN /\ r.branch_code = BranchCode(TextLine(f.page, b))
                      /\ r.branch_name = BranchName(TextLine(f.page, b))
                      /\ r.branch_code \notin {None, <<>>}
                      /\ r.branch_name \notin {None, <<>>}
    /\ (pc = "line" /\ i >= 1 /\ BranchMatch(TextLine(page_idx, i - 1))
        /\ LastBranchBefore(page_idx, i - 1) < 0)
          => /\ seat_types = <<>> /\ ranks = <<>> /\ base_seat_types = <<>>
             /\ \A f \in Flushes : f.page = page_idx => f.n = 0

\* seat types and ranks were complete when the first branch header of a page
\* arrived: the add_rows call made at that header appended nothing, and a
\* later call of the page appended records that carry that header's code
BranchAlwaysSetWitness ==
    \E f \in Flushes, g \in Emitting :
        /\ f.page = g.page /\ f.at < g.at
        /\ BranchMatch(TextLine(f.page, f.at))
        /\ LastBranchBefore(f.page, f.at) < 0
        /\ f.seat_types # <<>> /\ f.ranks # <<>> /\ f.n = 0
        /\ RecordsOf(g)[1].branch_code = BranchCode(TextLine(f.page, f.at))

\* the line before the current one is a rank line whose nearest header is a
\* seat-type-row header
UnderSeatTypeHeader ==
    /\ pc = "line" /\ i >= 1
    /\ RankAt(page_idx, i - 1)
    /\ HeaderBefore(page_idx, i - 1) >= 0
    /\ SeatTypeAt(page_idx, HeaderBefore(page_idx, i - 1))

\* the first min(n, k) labels of the header at line h of the current page
FirstLabels(h, k) ==
    SubSeq(HeaderSeatTypes(page_idx, h), 1,
           Min(Len(HeaderSeatTypes(page_idx, h)), k))

\* C25 as stated (per-stage seat types): after a rank line with k parsed
\* ranks under a seat-type-row header with n labels, the pending seat-type
\* list is the first min(n, k) labels of the header, for every k.
SeatTypesFromHeaderAsStated ==
    UnderSeatTypeHeader =>
        seat_types = FirstLabels(HeaderBefore(page_idx, i - 1),
                                 Len(ParseRanks(TextLine(page_idx, i - 1))))

\* C25 (per-stage seat types, by the code): after a rank line with k >= 1
\* parsed ranks under a seat-type-row header with n labels, the pending
\* seat-type list is the first min(n, k) labels of the header, whatever the
\* rank lines before it under the same header gave; a rank line without any
\* parsed rank leaves the pending seat-type list as it was and the pending
\* ranks empty, so that no row is made from it.
SeatTypesFromHeader ==
    /\ [](UnderSeatTypeHeader =>
            LET k == Len(ParseRanks(TextLine(page_idx, i - 1)))
            IN /\ k >= 1 =>
                    /\ ranks = ParseRanks(TextLine(page_idx, i - 1))
                    /\ seat_types = FirstLabels(HeaderBefore(page_idx, i - 1), k)
               /\ k = 0 => ~RowComplete)
    /\ [][ (AtLine /\ IsRank /\ ParseRanks(line) = <<>> /\ pc' # "hung")
             => seat_types' = seat_types /\ ranks' = <<>> ]_vars

\* the second rank line under a header of two labels gave two ranks after a
\* first rank line that gave one: both labels are pending
SeatTypesFromHeaderWitness ==
    /\ UnderSeatTypeHeader /\ i >= 3
    /\ HeaderBefore(page_idx, i - 1) = i - 3
    /\ RankAt(page_idx, i - 2)
    /\ Len(ParseRanks(TextLine(page_idx, i - 2))) = 1
    /\ Len(ranks) = 2
    /\ seat_types = HeaderSeatTypes(page_idx, i - 3)
    /\ Len(seat_types) = 2

----------------------------------------------------------------------------
(* Properties of the helpers, under CallSpec                               *)

\* C13 (normalizer idempotence): when either normalize_seat_type has been
\* applied to a whitespace-free token and then to its own result, the second
\* result equals the first.
NormalizerIdempotence ==
    (fn \in {"nested", "module"} /\ fpc = "reapplied") => again = res

\* both applications are done on a token that the first one rewrote beyond
\* upper-casing it
NormalizerIdempotenceWitness ==
    /\ fn \in {"nested", "module"} /\ fpc = "reapplied"
    /\ res # Upper(arg)
    /\ again = res

\* C14 (structural repair rule): a token of the shape "optional G or L
\* prefix, one to four letters, trailing digit 0" comes back from the nested
\* normalize_seat_type, the one called for seat-type rows, with its trailing
\* 0 rewritten to the letter O.
StructuralRepair ==
    (fn = "nested" /\ fpc # "ready" /\ LetterZeroMatch(arg))
        => res = SubSeq(arg, 1, Len(arg) - 1) \o <<"O">>

\* no lowercase letter in s, and s does not end in ':', ';', ',' or '.'
Canonical(s) ==
    /\ Upper(s) = s
    /\ s # <<>> => s[Len(s)] \notin SeatPunctuation

\* C15 (canonical output): what either normalize_seat_type returns holds no
\* lowercase letter and does not end in ':', ';', ',' or '.'.
CanonicalOutput ==
    (fn \in {"nested", "module"} /\ fpc # "ready") => Canonical(res)

\* x is key in some letter case, followed by punctuation characters only
KeyWithPunctuation(x, key) ==
    /\ Len(x) >= Len(key)
    /\ Upper(SubSeq(x, 1, Len(key))) = key
    /\ \A k \in (Len(key) + 1)..Len(x) : x[k] \in SeatPunctuation

\* the correction table of the function that is called
TableOf(f) == IF f = "nested" THEN SeatCorrections ELSE ModuleSeatCorrections

\* C16 (known corrections): either normalize_seat_type maps "EWWS" to "EWS"
\* and "GNT10" to "GNT1O", and maps every key of its correction table, in
\* any letter case and with any trailing ':', ';', ',' or '.', to the
\* table's value.
KnownCorrections ==
    (fn \in {"nested", "module"} /\ fpc # "ready") =>
        /\ arg = <<"E","W","W","S">> => res = <<"E","W","S">>
        /\ arg = <<"G","N","T","1","0">> => res = <<"G","N","T","1","O">>
        /\ \A k \in 1..Len(TableOf(fn)) :
              KeyWithPunctuation(arg, TableOf(fn)[k][1])
                  => res = TableOf(fn)[k][2]

\* the slot a token fills: the first run of digits of the corrected token,
\* the token itself when it holds no digit
SlotOf(t) ==
    IF FirstNumber(CorrectToken(t)) # <<>>
    THEN FirstNumber(CorrectToken(t)) ELSE t

\* C19 as stated (rank slots): every whitespace-separated token after the
\* marker of a rank line fills exactly one slot of the rank list, in order.
RankSlotsAsStated ==
    (fn = "rank" /\ fpc = "applied") =>
        LET toks == TokensAfterMarker(arg)
        IN /\ Len(res.ranks) = Len(toks)
           /\ \A k \in 1..Len(toks) : res.ranks[k] = SlotOf(toks[k])

\* the tokens of the rank text (group 1 of rank_pattern) that are not noise
KeptTokens(l) ==
    SelectSeq(Split(Strip(RankGroup(l))), LAMBDA t : t \notin NoiseTokens)

\* C19 (rank slots): every token of the rank text of a rank line, except the
\* noise tokens '}', 'l}' and 'il}', fills exactly one slot of the rank list,
\* in order; a token without digits is recorded as it is, with one warning.
RankSlots ==
    (fn = "rank" /\ fpc = "applied") =>
        LET kept == KeptTokens(arg)
        IN /\ Len(res.ranks) = Len(kept)
           /\ \A k \in 1..Len(kept) : res.ranks[k] = SlotOf(kept[k])
           /\ res.warnings =
                 Cardinality({k \in 1..Len(kept) :
                                FirstNumber(CorrectToken(kept[k])) = <<>>})

\* a rank line is parsed that has a token without digits, then a noise
\* token, then a number
RankSlotsWitness ==
    /\ fn = "rank" /\ fpc = "applied"
    /\ Len(KeptTokens(arg)) < Len(TokensAfterMarker(arg))
    /\ Len(res.ranks) = 2
    /\ res.ranks[1] = <<"-">>
    /\ res.ranks[2] = <<"1","0","0">>
    /\ res.warnings = 1

\* the number of opening parentheses of a line: its number of groups
GroupCount(l) == Len(SelectSeq(l, LAMBDA c : c = "("))

\* the line without its parentheses and its whitespace: the contents of its
\* groups, one after the other
GroupContents(l) ==
    SelectSeq(l, LAMBDA c : c \notin {"(", ")"} \cup Whitespace)

\* C20 (percentile parsing): a percentile line of n parenthesized groups,
\* separated by one space, several spaces or nothing, is parsed into exactly
\* n strings in source order, each the content of one group with no
\* parenthesis left in it.
PercentileParsing ==
    (fn = "percentile" /\ fpc = "applied") =>
        /\ Len(res) = GroupCount(arg)
        /\ \A k \in 1..Len(res) :
              \A c \in 1..Len(res[k]) : res[k][c] \notin {"(", ")"}
        /\ Join(res, <<>>) = GroupContents(arg)


\* r is the first maximal run of digits of t: digits only, not empty, no
\* digit of t before it, and no digit of t right after it
IsFirstDigitRun(r, t) ==
    \E b \in 1..Len(t) : \E e \in b..Len(t) :
        /\ r = SubSeq(t, b, e)
        /\ \A m \in b..e : t[m] \in Digits
        /\ \A m \in 1..(b - 1) : t[m] \notin Digits
        /\ e = Len(t) \/ t[e + 1] \notin Digits

\* C26 (first digit run): for every token of a rank line that is kept and
\* whose corrected form holds a digit, the recorded rank is the first
\* maximal run of digits of the corrected token, a non-empty string of
\* digits; the digit groups after it in the token are not recorded.
FirstDigitRun ==
    (fn = "rank" /\ fpc = "applied") =>
        LET kept == KeptTokens(arg)
        IN /\ Len(res.ranks) = Len(kept)
           /\ \A k \in 1..Len(kept) :
                 (\E c \in 1..Len(CorrectToken(kept[k])) :
                      CorrectToken(kept[k])[c] \in Digits)
                   => /\ IsFirstDigitRun(res.ranks[k], CorrectToken(kept[k]))
                      /\ res.ranks[k] # <<>>
                      /\ \A c \in 1..Len(res.ranks[k]) :
                            res.ranks[k][c] \in Digits

\* the token "12,345" was recorded as "12"
FirstDigitRunWitness ==
    /\ fn = "rank" /\ fpc = "applied"
    /\ \E k \in 1..Len(KeptTokens(arg)) :
          /\ KeptTokens(arg)[k] = <<"1","2",",","3","4","5">>
          /\ res.ranks[k] = <<"1","2">>

====
